---- MODULE Spec2Model ----
(***************************************************************************)
(* A model of src/src/index.ts of cf-worker-image-converter.  The file     *)
(* holds four successive revisions of the worker:                          *)
(*   lines   1-236  revision 1 (DOM based getSVGDimensions, ffmpeg)        *)
(*   lines 237-529  revision 2 (regex based getSVGDimensions, ffmpeg)      *)
(*   lines 530-711  revision 3 (Cloudinary upload, no classifier)          *)
(*   lines 713-973  revision 4 (Cloudinary upload, stricter isAnimatedGIF) *)
(* Byte buffers are sequences over 0..255, indexed from 0 through View.    *)
(* Texts are strings, read with Len, SubSeq and \o.                         *)
(***************************************************************************)
EXTENDS Integers, Sequences, FiniteSets, TLC

VARIABLES
    gifBuf,       \* the ArrayBuffer handed to isAnimatedGIF / getGIFDimensions
    gifOp,        \* which function is called on gifBuf
    gifPc,        \* position of the call: "start", "scan", "done"
    pos,          \* isAnimatedGIF: let pos
    frames,       \* isAnimatedGIF: let frames
    counted,      \* positions at which the scan counted a marker (history)
    oobReads,     \* indices read at or past view.length (history)
    gifResult,    \* the value returned: a boolean, or a Dimensions record
    svgDoc,       \* the document svgSource was written from (history)
    svgSource,      \* the string handed to isAnimatedSVG / getSVGDimensions
    svgOp,        \* which function is called on svgSource
    svgPc,        \* position of the call: "start", "done"
    svgResult,    \* the value returned: a boolean, or a Dimensions record
    request,      \* the Request: [method, url, file, remote]
    hPc,          \* position of the handler in fetch / handleImageConversion
    fileBuffer,   \* let fileBuffer
    format,       \* let format
    isAnimated,   \* let isAnimated
    uploadResult, \* const uploadResult
    response,     \* the Response returned, NoResponse before
    calls,        \* the collaborators and checks run so far (history)
    pairBuf,      \* the buffer two concurrent invocations are given
    pairOp,       \* the function both invocations call on pairBuf
    jobs,         \* per invocation: position of the call, value returned
    locals,       \* per scope: the let variables pos and frames
    touched       \* per scope: the invocations that used it (history)

gifVars == <<gifBuf, gifOp, gifPc, pos, frames, counted, oobReads, gifResult>>
svgVars == <<svgDoc, svgSource, svgOp, svgPc, svgResult>>
reqVars == <<request, hPc, fileBuffer, format, isAnimated, uploadResult,
             response, calls>>

pairVars == <<pairBuf, pairOp, jobs, locals, touched>>

vars == <<gifVars, svgVars, reqVars, pairVars>>

----------------------------------------------------------------------------
(* Sequence helpers *)

RECURSIVE Flatten(_)
Flatten(ss) == IF ss = <<>> THEN <<>> ELSE Head(ss) \o Flatten(Tail(ss))

Take(s, n) == SubSeq(s, 1, n)

SeqsUpTo(S, n) == UNION {[1..k -> S] : k \in 0..n}

----------------------------------------------------------------------------
(* JavaScript values used by the byte-level code *)

\* view[i] for i outside 0..view.length-1 evaluates to undefined
Undefined == -1

\* new Uint8Array(buffer)[i]
View(buffer, i) ==
    IF i >= 0 /\ i < Len(buffer) THEN buffer[i + 1] ELSE Undefined

\* ToInt32 of an operand of | and <<: undefined becomes 0.  Every other operand
\* here is a Uint8Array element (0..255) or such an element shifted by 8
\* (< 2^16), which ToInt32 leaves as it is.
ToInt32(x) == IF x = Undefined THEN 0 ELSE x

\* a << n
ShiftLeft(a, n) == ToInt32(a) * (2 ^ n)

RECURSIVE BitOrNat(_, _)
BitOrNat(a, b) ==
    IF a = 0 THEN b
    ELSE IF b = 0 THEN a
    ELSE (IF (a % 2 = 1) \/ (b % 2 = 1) THEN 1 ELSE 0)
         + 2 * BitOrNat(a \div 2, b \div 2)

\* a | b
BitOr(a, b) == BitOrNat(ToInt32(a), ToInt32(b))

----------------------------------------------------------------------------
(* getGIFDimensions, revision 2 (identical in revision 1) *)

getGIFDimensionsOffByTwo(buffer) ==
    [width  |-> BitOr(View(buffer, 8), ShiftLeft(View(buffer, 9), 8)),
     height |-> BitOr(View(buffer, 10), ShiftLeft(View(buffer, 11), 8))]

getGIFDimensionsBigEndian(buffer) ==
    [width  |-> BitOr(View(buffer, 7), ShiftLeft(View(buffer, 6), 8)),
     height |-> BitOr(View(buffer, 9), ShiftLeft(View(buffer, 8), 8))]

getGIFDimensions(buffer) ==
    [width  |-> BitOr(View(buffer, 6), ShiftLeft(View(buffer, 7), 8)),
     height |-> BitOr(View(buffer, 8), ShiftLeft(View(buffer, 9), 8))]

----------------------------------------------------------------------------
(* isAnimatedGIF, revision 4 (the stricter variant) *)

SigG == 71
SigI == 73
SigF == 70
ExtIntroducer == 33
GraphicControlLabel == 249
ImageSeparator == 44
HeaderSize == 13
GceStep == 8
ImageStep == 11

BadSignatureNever(view) == FALSE

\* view[0] !== 0x47 || view[1] !== 0x49 || view[2] !== 0x46
BadSignature(view) ==
    \/ View(view, 0) # SigG
    \/ View(view, 1) # SigI
    \/ View(view, 2) # SigF

IsMarkerAtFirstByteOnly(view, p) == View(view, p) = ExtIntroducer

\* view[pos] === 0x21 && view[pos + 1] === 0xF9
IsMarkerAt(view, p) ==
    View(view, p) = ExtIntroducer /\ View(view, p + 1) = GraphicControlLabel

IsImageAtNever(view, p) == FALSE

\* view[pos] === 0x2C
IsImageAt(view, p) == View(view, p) = ImageSeparator

\* the while loop, from position p with f frames counted
RECURSIVE ScanGIF(_, _, _)
ScanGIF(view, p, f) ==
    IF ~(p < Len(view)) THEN FALSE
    ELSE IF IsMarkerAt(view, p)
         THEN IF f + 1 > 1 THEN TRUE ELSE ScanGIF(view, p + GceStep, f + 1)
         ELSE IF IsImageAt(view, p) THEN ScanGIF(view, p + ImageStep, f)
         ELSE ScanGIF(view, p + 1, f)

isAnimatedGIF(buffer) ==
    IF BadSignature(buffer) THEN FALSE ELSE ScanGIF(buffer, HeaderSize, 0)

----------------------------------------------------------------------------
(* JavaScript strings and numbers used by the SVG code.  A text is a string;
   CharAt, StartsWithAt and SubSeq address it from 1.  A number is kept exact
   as num/den with den a power of ten; NaN and undefined are values of their
   own.  The attribute values of the model hold no exponent, no hexadecimal
   literal and no "Infinity", so the decimal grammar below is all that
   Number() and parseFloat() meet. *)

CharAt(str, i) == SubSeq(str, i, i)

StartsWithAt(str, lit, i) ==
    i >= 1 /\ i + Len(lit) - 1 <= Len(str)
           /\ SubSeq(str, i, i + Len(lit) - 1) = lit

Digits == {"0", "1", "2", "3", "4", "5", "6", "7", "8", "9"}

DigitVal(c) ==
    CASE c = "0" -> 0 [] c = "1" -> 1 [] c = "2" -> 2 [] c = "3" -> 3
      [] c = "4" -> 4 [] c = "5" -> 5 [] c = "6" -> 6 [] c = "7" -> 7
      [] c = "8" -> 8 [] c = "9" -> 9

Num(n, d) == [kind |-> "number", num |-> n, den |-> d]
NaN == [kind |-> "NaN", num |-> 0, den |-> 1]
JsUndefined == [kind |-> "undefined", num |-> 0, den |-> 1]

\* the value of a string of decimal digits ("" is 0)
RECURSIVE DigitsValue(_)
DigitsValue(str) ==
    IF str = "" THEN 0
    ELSE 10 * DigitsValue(SubSeq(str, 1, Len(str) - 1))
         + DigitVal(CharAt(str, Len(str)))

\* the index of the last character of the run of digits that starts at i
\* (i - 1 when there is no digit at i)
RECURSIVE DigitsEnd(_, _)
DigitsEnd(str, i) ==
    IF i <= Len(str) /\ CharAt(str, i) \in Digits
    THEN DigitsEnd(str, i + 1) ELSE i - 1

RECURSIVE StripTrailingZeros(_)
StripTrailingZeros(str) ==
    IF str # "" /\ CharAt(str, Len(str)) = "0"
    THEN StripTrailingZeros(SubSeq(str, 1, Len(str) - 1)) ELSE str

\* the number written as sign, integer digits, fraction digits
Decimal(negative, int, frac) ==
    LET f == StripTrailingZeros(frac)
        n == DigitsValue(int \o f)
    IN  Num(IF negative THEN 0 - n ELSE n, 10 ^ Len(f))

RECURSIVE SkipSpaces(_, _)
SkipSpaces(str, i) ==
    IF i <= Len(str) /\ CharAt(str, i) = " " THEN SkipSpaces(str, i + 1) ELSE i

RECURSIVE SkipSpacesBack(_, _)
SkipSpacesBack(str, j) ==
    IF j >= 1 /\ CharAt(str, j) = " " THEN SkipSpacesBack(str, j - 1) ELSE j

\* The longest StrDecimalLiteral that starts at index i: [end, value], or
\* end = 0 when none starts there.
DecimalPrefix(str, i) ==
    LET signed == i <= Len(str) /\ CharAt(str, i) \in {"+", "-"}
        negative == signed /\ CharAt(str, i) = "-"
        a == IF signed THEN i + 1 ELSE i
        intEnd == DigitsEnd(str, a)
        dot == intEnd + 1 <= Len(str) /\ CharAt(str, intEnd + 1) = "."
        fracEnd == IF dot THEN DigitsEnd(str, intEnd + 2) ELSE intEnd
        int == SubSeq(str, a, intEnd)
        frac == IF dot THEN SubSeq(str, intEnd + 2, fracEnd) ELSE ""
        end == IF dot /\ (int # "" \/ frac # "") THEN fracEnd ELSE intEnd
    IN  IF int = "" /\ frac = ""
        THEN [end |-> 0, value |-> NaN]
        ELSE [end |-> end, value |-> Decimal(negative, int, frac)]

\* parseFloat(str): leading white space skipped, the longest numeric prefix
\* parsed, the rest ignored; NaN when there is no numeric prefix
parseFloat(str) == DecimalPrefix(str, SkipSpaces(str, 1)).value

\* Number(str): white space trimmed; the empty string is 0; otherwise the
\* whole string must be a numeric literal
Number(str) ==
    LET a == SkipSpaces(str, 1)
        b == SkipSpacesBack(str, Len(str))
        p == DecimalPrefix(str, a)
    IN  IF a > b THEN Num(0, 1)
        ELSE IF p.end = b THEN p.value
        ELSE NaN

\* str.split(' ')
RECURSIVE SplitFrom(_, _, _)
SplitFrom(str, start, i) ==
    IF i > Len(str) THEN <<SubSeq(str, start, Len(str))>>
    ELSE IF CharAt(str, i) = " "
         THEN <<SubSeq(str, start, i - 1)>> \o SplitFrom(str, i + 1, i + 1)
         ELSE SplitFrom(str, start, i + 1)

Split(str) == SplitFrom(str, 1, 1)

\* array[i] (0-based) of an array of numbers: undefined past its end
At(array, i) == IF i < Len(array) THEN array[i + 1] ELSE JsUndefined

\* str.includes(lit): the search for the first occurrence, left to right
\* (1-based; 0 when there is none at or after i)
IndexOfFrom(str, lit, i) ==
    LET hits == {k \in i..(Len(str) - Len(lit) + 1) :
                    SubSeq(str, k, k + Len(lit) - 1) = lit}
    IN  IF hits = {} THEN 0
        ELSE CHOOSE k \in hits : \A m \in hits : k <= m

Includes(str, lit) == IndexOfFrom(str, lit, 1) # 0

\* str.match(/NAME="([^"]+)"/) with lit = NAME=" : the leftmost position at
\* which lit is followed by one or more characters other than " and then by ";
\* [matched, group]
NoMatch == [matched |-> FALSE, group |-> ""]

RECURSIVE MatchAttrFrom(_, _, _)
MatchAttrFrom(str, lit, i) ==
    IF i + Len(lit) - 1 > Len(str) THEN NoMatch
    ELSE LET s == i + Len(lit)
             q == IndexOfFrom(str, "\"", s)
         IN  IF StartsWithAt(str, lit, i) /\ q > s
             THEN [matched |-> TRUE, group |-> SubSeq(str, s, q - 1)]
             ELSE MatchAttrFrom(str, lit, i + 1)

MatchAttr(str, lit) == MatchAttrFrom(str, lit, 1)

----------------------------------------------------------------------------
(* isAnimatedSVG, revision 4 (the same list, in another order, in 1 and 2) *)

animationElementsWithoutSet ==
    <<"<animate", "<animateMotion", "<animateTransform">>

animationElements ==
    <<"<animate", "<animateMotion", "<animateTransform", "<set">>

isAnimatedSVG(svgContent) ==
    \E k \in 1..Len(animationElements) :
        Includes(svgContent, animationElements[k])

----------------------------------------------------------------------------
(* getSVGDimensions, revision 2: the regular-expression scan *)

DefaultWidth == 800
DefaultHeight == 600

getSVGDimensions(svgText) ==
    LET viewBoxMatch == MatchAttr(svgText, "viewBox=\"")
        numbers == [i \in 1..Len(Split(viewBoxMatch.group)) |->
                       Number(Split(viewBoxMatch.group)[i])]
        widthMatch == MatchAttr(svgText, "width=\"")
        heightMatch == MatchAttr(svgText, "height=\"")
    IN  IF viewBoxMatch.matched
        THEN [width |-> At(numbers, 2), height |-> At(numbers, 3)]
        ELSE [width  |-> IF widthMatch.matched
                         THEN parseFloat(widthMatch.group)
                         ELSE Num(DefaultWidth, 1),
              height |-> IF heightMatch.matched
                         THEN parseFloat(heightMatch.group)
                         ELSE Num(DefaultHeight, 1)]

----------------------------------------------------------------------------
(* getSVGDimensions, revision 1: DOMParser and getAttribute.  A document is
   [attrs, body]: the root element's attributes in order, each
   [name, quote, value], and the text between <svg ...> and </svg>. *)

RECURSIVE RenderAttrs(_)
RenderAttrs(attrs) ==
    IF attrs = <<>> THEN ""
    ELSE " " \o Head(attrs).name \o "=" \o Head(attrs).quote
             \o Head(attrs).value \o Head(attrs).quote
             \o RenderAttrs(Tail(attrs))

\* the text of a document
Render(doc) == "<svg" \o RenderAttrs(doc.attrs) \o ">" \o doc.body \o "</svg>"

HasAttr(doc, name) == \E k \in 1..Len(doc.attrs) : doc.attrs[k].name = name

AttrValue(doc, name) ==
    doc.attrs[CHOOSE k \in 1..Len(doc.attrs) : doc.attrs[k].name = name].value

\* a body that is not well-formed XML: "<" inside an attribute value
IllFormedBodies == {"<a b=\"<animateTransform\"/>"}

\* parser.parseFromString(text, 'image/svg+xml').documentElement of the text
\* of doc: the root element, or a parsererror element, which has none of the
\* attributes, when the text is not well-formed
documentElement(doc) ==
    IF doc.body \in IllFormedBodies THEN [attrs |-> <<>>, body |-> ""] ELSE doc

\* svgElement.getAttribute(name): the value, or null ("" is falsy as well)
getAttribute(element, name) ==
    IF HasAttr(element, name)
    THEN [null |-> FALSE, value |-> AttrValue(element, name)]
    ELSE [null |-> TRUE, value |-> ""]

Truthy(attribute) == ~attribute.null /\ attribute.value # ""

getSVGDimensionsDOM(doc) ==
    LET svgElement == documentElement(doc)
        viewBox == getAttribute(svgElement, "viewBox")
        numbers == [i \in 1..Len(Split(viewBox.value)) |->
                       Number(Split(viewBox.value)[i])]
        width == getAttribute(svgElement, "width")
        height == getAttribute(svgElement, "height")
    IN  IF Truthy(viewBox)
        THEN [width |-> At(numbers, 2), height |-> At(numbers, 3)]
        ELSE [width  |-> parseFloat(IF Truthy(width) THEN width.value
                                    ELSE "800"),
              height |-> parseFloat(IF Truthy(height) THEN height.value
                                    ELSE "600")]

----------------------------------------------------------------------------
(* isAnimatedGIF, revision 2 (lines 519-529): the first marker at or after
   offset 13 means animated; no signature check, the position moves by 1 *)

RECURSIVE ScanSimpleByTwo(_, _)
ScanSimpleByTwo(view, p) ==
    IF ~(p < Len(view)) THEN FALSE
    ELSE IF IsMarkerAt(view, p) THEN TRUE
    ELSE ScanSimpleByTwo(view, p + 2)

RECURSIVE ScanSimple(_, _)
ScanSimple(view, p) ==
    IF ~(p < Len(view)) THEN FALSE
    ELSE IF IsMarkerAt(view, p) THEN TRUE
    ELSE ScanSimple(view, p + 1)

isAnimatedGIFSimple(buffer) == ScanSimple(buffer, HeaderSize)

----------------------------------------------------------------------------
(* The converters of revision 2 (lines 402-511): each takes the dimensions
   and writes them into the filter argument `scale=${width}:${height}` of the
   encoder.  A template literal applies ToString (JsToString here) to the value. *)

RECURSIVE NatToString(_)
NatToString(n) ==
    IF n < 10 THEN CharAt("0123456789", n + 1)
    ELSE NatToString(n \div 10) \o CharAt("0123456789", (n % 10) + 1)

\* the digits of n, padded with zeros on the left to `width` characters
RECURSIVE PadLeft(_, _)
PadLeft(str, width) ==
    IF Len(str) >= width THEN str ELSE PadLeft("0" \o str, width)

RECURSIVE Log10(_)
Log10(d) == IF d <= 1 THEN 0 ELSE 1 + Log10(d \div 10)

\* ToString of a value of the number model (or of undefined)
JsToString(value) ==
    IF value.kind = "NaN" THEN "NaN"
    ELSE IF value.kind = "undefined" THEN "undefined"
    ELSE LET abs == IF value.num < 0 THEN 0 - value.num ELSE value.num
             sign == IF value.num < 0 THEN "-" ELSE ""
         IN  IF value.den = 1 THEN sign \o NatToString(abs)
             ELSE sign \o NatToString(abs \div value.den) \o "."
                  \o PadLeft(NatToString(abs % value.den), Log10(value.den))

\* `scale=${dimensions.width}:${dimensions.height}`
ScaleDirective(dimensions) ==
    "scale=" \o JsToString(dimensions.width) \o ":"
             \o JsToString(dimensions.height)

\* convertGIFtoPNG / convertGIFtoMP4: the handler (lines 337-355) picks the
\* converter by isAnimatedGIF; both build the same directive
convertGIF(buffer) ==
    [converter |-> IF isAnimatedGIFSimple(buffer) THEN "convertGIFtoMP4"
                   ELSE "convertGIFtoPNG",
     vf |-> LET dimensions == getGIFDimensions(buffer)
            IN  ScaleDirective([width |-> Num(dimensions.width, 1),
                                height |-> Num(dimensions.height, 1)])]

\* convertSVGtoPNG / convertAnimatedSVGtoMP4 (lines 308-331 pick one)
convertSVG(svgText) ==
    [converter |-> IF isAnimatedSVG(svgText) THEN "convertAnimatedSVGtoMP4"
                   ELSE "convertSVGtoPNG",
     vf |-> ScaleDirective(getSVGDimensions(svgText))]

----------------------------------------------------------------------------
(* The GIF buffers the functions are called on *)

MaxBlocks == 3

GifHeader(w0, w1, h0, h1) ==
    <<71, 73, 70, 56, 57, 97, w0, w1, h0, h1, 0, 0, 0>>

\* a Graphic Control Extension block: 21 F9 04 flags delay delay index 00
GceBlock == <<33, 249, 4, 0, 10, 0, 0, 0>>
\* an Image Descriptor: 2C left top width height flags
ImageDescriptor == <<44, 0, 0, 0, 0, 1, 0, 1, 0, 0>>
\* image data: LZW minimum code size, one sub-block, terminator
ImageData == <<2, 2, 76, 1, 0>>
\* image data whose last pixel byte happens to be 0x2C
ImageData2C == <<2, 2, 76, 44, 0>>

Blocks ==
    { GceBlock \o ImageDescriptor \o ImageData,
      GceBlock \o ImageDescriptor \o ImageData2C,
      GceBlock,
      <<33>>, <<249>>, <<44>> }

Tails == {Flatten(bs) : bs \in SeqsUpTo(Blocks, MaxBlocks)}

ScanHeaders ==
    { GifHeader(1, 0, 1, 0),
      <<71, 73, 88, 56, 57, 97, 1, 0, 1, 0, 0, 0, 0>>,
      <<71, 73, 70, 56, 57, 97, 1, 0, 1, 0, 0, 33, 249>> }

DimBytes == {0, 10, 30, 255}

DimHeaders ==
    {GifHeader(w0, w1, h0, h1) : w0 \in DimBytes, w1 \in DimBytes,
                                 h0 \in DimBytes, h1 \in DimBytes}

\* the buffers of spec.md section 8: as printed, and with bytes 6-9 as described
ExampleAsPrinted == <<71, 73, 70, 0, 0, 0, 0, 0, 10, 0, 30, 0>>
ExampleAsDescribed == <<71, 73, 70, 0, 0, 0, 10, 0, 30, 0>>

DimTails == {<<>>, <<0, 0, 0>>, GceBlock \o ImageDescriptor \o ImageData}

TruncatedHeaders ==
    {Take(h, n) : h \in {GifHeader(5, 1, 7, 2), GifHeader(255, 255, 255, 255)},
                  n \in 0..(HeaderSize - 1)}

GifBuffers ==
    {h \o t : h \in ScanHeaders, t \in Tails}
    \cup {h \o t : h \in DimHeaders, t \in DimTails}
    \cup {e \o t : e \in {ExampleAsPrinted, ExampleAsDescribed}, t \in DimTails}
    \cup {h \o t : h \in TruncatedHeaders, t \in {<<>>, <<33>>}}

NoResult == [none |-> TRUE]

NoDoc == [attrs |-> <<>>, body |-> ""]
NoRequest == [method |-> "none", url |-> "", file |-> "", content |-> <<>>]
NoJson == [format |-> "", resource_type |-> ""]
NoResponse == [status |-> 0, contentType |-> "", body |-> "", json |-> NoJson]

\* the two invocations, and the idle state of their variables
Jobs == {1, 2}
NoJob == [pc |-> "done", result |-> NoResult]
NoLocals == [pos |-> 0, frames |-> 0]

\* a call of isAnimatedGIF or getGIFDimensions on one of the buffers
InitGIF ==
    /\ gifBuf \in GifBuffers
    /\ gifOp \in {"isAnimatedGIF", "getGIFDimensions", "isAnimatedGIFSimple",
                 "convertGIF"}
    /\ gifPc = "start"
    /\ pos = 0
    /\ frames = 0
    /\ counted = {}
    /\ oobReads = {}
    /\ gifResult = NoResult
    /\ svgDoc = NoDoc
    /\ svgSource = ""
    /\ svgOp = "none"
    /\ svgPc = "done"
    /\ svgResult = NoResult
    /\ request = NoRequest
    /\ hPc = "done"
    /\ fileBuffer = <<>>
    /\ format = ""
    /\ isAnimated = FALSE
    /\ uploadResult = NoResult
    /\ response = NoResponse
    /\ calls = <<>>
    /\ pairBuf = <<>>
    /\ pairOp = "none"
    /\ jobs = [j \in Jobs |-> NoJob]
    /\ locals = [s \in Jobs |-> NoLocals]
    /\ touched = [s \in Jobs |-> {}]

\* the indices among `idx` that lie at or past the end of the buffer
Oob(buffer, idx) == {i \in idx : i >= Len(buffer)}

\* the indices the || chain of the header check reads, left to right
SignatureReads(view) ==
    {0} \cup (IF View(view, 0) = SigG THEN {1} ELSE {})
        \cup (IF View(view, 0) = SigG /\ View(view, 1) = SigI THEN {2} ELSE {})

\* the indices one loop iteration reads: view[pos + 1] only after 0x21
StepReads(view, p) ==
    {p} \cup (IF View(view, p) = ExtIntroducer THEN {p + 1} ELSE {})

\* isAnimatedGIF lines 741-750: the header check
GifCheckHeader ==
    /\ gifOp = "isAnimatedGIF"
    /\ gifPc = "start"
    /\ oobReads' = oobReads \cup Oob(gifBuf, SignatureReads(gifBuf))
    /\ IF BadSignature(gifBuf)
       THEN /\ gifResult' = FALSE
            /\ gifPc' = "done"
            /\ pos' = pos
       ELSE /\ pos' = pos + HeaderSize
            /\ gifPc' = "scan"
            /\ gifResult' = gifResult
    /\ UNCHANGED <<gifBuf, gifOp, frames, counted, svgVars, reqVars, pairVars>>

\* isAnimatedGIF lines 752-762: one iteration of the while loop
GifScanStep ==
    /\ gifOp = "isAnimatedGIF"
    /\ gifPc = "scan"
    /\ pos < Len(gifBuf)
    /\ oobReads' = oobReads \cup Oob(gifBuf, StepReads(gifBuf, pos))
    /\ IF IsMarkerAt(gifBuf, pos)
       THEN /\ frames' = frames + 1
            /\ counted' = counted \cup {pos}
            /\ IF frames' > 1
               THEN /\ gifResult' = TRUE
                    /\ gifPc' = "done"
                    /\ pos' = pos
               ELSE /\ pos' = pos + GceStep
                    /\ UNCHANGED <<gifResult, gifPc>>
       ELSE IF IsImageAt(gifBuf, pos)
       THEN /\ pos' = pos + ImageStep
            /\ UNCHANGED <<frames, counted, gifResult, gifPc>>
       ELSE /\ pos' = pos + 1
            /\ UNCHANGED <<frames, counted, gifResult, gifPc>>
    /\ UNCHANGED <<gifBuf, gifOp, svgVars, reqVars, pairVars>>

\* isAnimatedGIF lines 752 and 764: the loop ends, return false
GifScanEnd ==
    /\ gifOp = "isAnimatedGIF"
    /\ gifPc = "scan"
    /\ ~(pos < Len(gifBuf))
    /\ gifResult' = FALSE
    /\ gifPc' = "done"
    /\ UNCHANGED <<gifBuf, gifOp, pos, frames, counted, oobReads, svgVars, reqVars, pairVars>>

\* getGIFDimensions lines 394-400
GifDimensions ==
    /\ gifOp = "getGIFDimensions"
    /\ gifPc = "start"
    /\ oobReads' = oobReads \cup Oob(gifBuf, {6, 7, 8, 9})
    /\ gifResult' = getGIFDimensions(gifBuf)
    /\ gifPc' = "done"
    /\ UNCHANGED <<gifBuf, gifOp, pos, frames, counted, svgVars, reqVars, pairVars>>

\* isAnimatedGIF of revision 2, lines 519-529
GifClassifySimple ==
    /\ gifOp = "isAnimatedGIFSimple"
    /\ gifPc = "start"
    /\ gifResult' = isAnimatedGIFSimple(gifBuf)
    /\ gifPc' = "done"
    /\ UNCHANGED <<gifBuf, gifOp, pos, frames, counted, oobReads, svgVars,
                   reqVars, pairVars>>

\* convertGIFtoPNG / convertGIFtoMP4 up to the encoder call, lines 461-506
GifConvert ==
    /\ gifOp = "convertGIF"
    /\ gifPc = "start"
    /\ gifResult' = convertGIF(gifBuf)
    /\ gifPc' = "done"
    /\ UNCHANGED <<gifBuf, gifOp, pos, frames, counted, oobReads, svgVars,
                   reqVars, pairVars>>

GifNext ==
    \/ GifCheckHeader
    \/ GifScanStep
    \/ GifScanEnd
    \/ GifDimensions
    \/ GifClassifySimple
    \/ GifConvert

----------------------------------------------------------------------------
(* The SVG texts the functions are called on *)

MaxAttrs == 2

Attr(name, quote, value) == [name |-> name, quote |-> quote, value |-> value]

RootAttrs ==
    {Attr("viewBox", "\"", v) :
        v \in {"0 0 120 80", "0 0  120 80", "0 0 100px 50", "0 0 12.5 80",
               "0 0 120"}}
    \cup {Attr("viewBox", "'", "0 0 120 80")}
    \cup {Attr("width", "\"", v) : v \in {"50", "100px", "abc"}}
    \cup {Attr("width", "'", "50")}
    \cup {Attr("height", "\"", v) : v \in {"40", "7.5"}}
    \cup {Attr("stroke-width", "\"", "2")}

\* an element carries each attribute name once
AttrLists ==
    {as \in SeqsUpTo(RootAttrs, MaxAttrs) :
        \A i, j \in 1..Len(as) : as[i].name = as[j].name => i = j}

Bodies ==
    {"", "<rect width=\"5\" height=\"6\"/>", "<animate/>", "<set/>",
     "<!--<animateMotion/>-->", "<svg viewBox=\"0 0 9 9\"/>", "<settings/>",
     "<title>animate set</title>"} \cup IllFormedBodies

SvgDocs == {[attrs |-> as, body |-> b] : as \in AttrLists, b \in Bodies}

\* a call of isAnimatedSVG or getSVGDimensions on the text of a document
InitSVG ==
    /\ svgDoc \in SvgDocs
    /\ svgSource = Render(svgDoc)
    /\ svgOp \in {"isAnimatedSVG", "getSVGDimensions", "getSVGDimensionsDOM",
                 "convertSVG"}
    /\ svgPc = "start"
    /\ svgResult = NoResult
    /\ gifBuf = <<>>
    /\ gifOp = "none"
    /\ gifPc = "done"
    /\ pos = 0
    /\ frames = 0
    /\ counted = {}
    /\ oobReads = {}
    /\ gifResult = NoResult
    /\ request = NoRequest
    /\ hPc = "done"
    /\ fileBuffer = <<>>
    /\ format = ""
    /\ isAnimated = FALSE
    /\ uploadResult = NoResult
    /\ response = NoResponse
    /\ calls = <<>>
    /\ pairBuf = <<>>
    /\ pairOp = "none"
    /\ jobs = [j \in Jobs |-> NoJob]
    /\ locals = [s \in Jobs |-> NoLocals]
    /\ touched = [s \in Jobs |-> {}]

\* isAnimatedSVG lines 730-738
SvgClassify ==
    /\ svgOp = "isAnimatedSVG"
    /\ svgPc = "start"
    /\ svgResult' = isAnimatedSVG(svgSource)
    /\ svgPc' = "done"
    /\ UNCHANGED <<svgDoc, svgSource, svgOp, gifVars, reqVars, pairVars>>

\* getSVGDimensions lines 366-392
SvgDimensions ==
    /\ svgOp = "getSVGDimensions"
    /\ svgPc = "start"
    /\ svgResult' = getSVGDimensions(svgSource)
    /\ svgPc' = "done"
    /\ UNCHANGED <<svgDoc, svgSource, svgOp, gifVars, reqVars, pairVars>>

\* getSVGDimensions lines 100-116
SvgDimensionsDOM ==
    /\ svgOp = "getSVGDimensionsDOM"
    /\ svgPc = "start"
    /\ svgResult' = getSVGDimensionsDOM(svgDoc)
    /\ svgPc' = "done"
    /\ UNCHANGED <<svgDoc, svgSource, svgOp, gifVars, reqVars, pairVars>>

\* convertSVGtoPNG / convertAnimatedSVGtoMP4 up to the encoder call,
\* lines 402-445
SvgConvert ==
    /\ svgOp = "convertSVG"
    /\ svgPc = "start"
    /\ svgResult' = convertSVG(svgSource)
    /\ svgPc' = "done"
    /\ UNCHANGED <<svgDoc, svgSource, svgOp, gifVars, reqVars, pairVars>>

SvgNext == SvgClassify \/ SvgDimensions \/ SvgDimensionsDOM \/ SvgConvert

----------------------------------------------------------------------------
(* The worker, revision 4: fetch (lines 888-973), handleImageConversion
   (840-886) and uploadToCloudinary (767-816).  A request is
   [method, url, file, content]: url is the url parameter ("" when there is
   none), file the name of the uploaded file ("" when there is none), content
   the bytes of the source that is read (the file, or what the url serves). *)

Upper == "ABCDEFGHIJKLMNOPQRSTUVWXYZ"
Lower == "abcdefghijklmnopqrstuvwxyz"

\* str.toLowerCase()
RECURSIVE toLowerCase(_)
toLowerCase(str) ==
    IF str = "" THEN ""
    ELSE LET c == CharAt(str, 1)
             i == IndexOfFrom(Upper, c, 1)
         IN  (IF i # 0 THEN CharAt(Lower, i) ELSE c)
             \o toLowerCase(SubSeq(str, 2, Len(str)))

\* str.split('.').pop(): what follows the last ".", all of str without one
RECURSIVE LastPart(_, _)
LastPart(str, i) ==
    IF i = 0 THEN str
    ELSE IF CharAt(str, i) = "." THEN SubSeq(str, i + 1, Len(str))
    ELSE LastPart(str, i - 1)

\* name.split('.').pop()?.toLowerCase() || ''
Extension(name) == toLowerCase(LastPart(name, Len(name)))

\* the characters of codes 32..126, in order (code 96, the grave accent,
\* cannot be written in a string here and stands as "?")
Printable ==
    " !\"#$%&'()*+,-./0123456789:;<=>?@ABCDEFGHIJKLMNOPQRSTUVWXYZ[\\]^_?abcdefghijklmnopqrstuvwxyz{|}~"

\* new TextDecoder().decode(buffer).  Bytes outside 32..126 (control
\* characters, and bytes that are not UTF-8 on their own, decoded to U+FFFD)
\* are all written "?": none of them is part of a pattern the code looks for.
RECURSIVE TextDecode(_)
TextDecode(bytes) ==
    IF bytes = <<>> THEN ""
    ELSE IF Len(bytes) = 1
    THEN (IF bytes[1] >= 32 /\ bytes[1] <= 126
          THEN CharAt(Printable, bytes[1] - 31) ELSE "?")
    ELSE LET half == Len(bytes) \div 2
         IN  TextDecode(SubSeq(bytes, 1, half))
             \o TextDecode(SubSeq(bytes, half + 1, Len(bytes)))

\* the bytes of a text of printable characters
Encode(str) ==
    [i \in 1..Len(str) |->
        31 + CHOOSE k \in 1..Len(Printable) :
                 /\ CharAt(Printable, k) = CharAt(str, i)
                 /\ \A m \in 1..(k - 1) :
                        CharAt(Printable, m) # CharAt(str, i)]

\* ['svg', 'gif'].includes(format)
SupportedFormat(fmt) == fmt \in {"svg", "gif"}

\* lines 853-859 and 938-944: let isAnimated = false; if svg ... else if gif
Classify(fmt, buffer) ==
    IF fmt = "svg" THEN isAnimatedSVG(TextDecode(buffer))
    ELSE IF fmt = "gif" THEN isAnimatedGIF(buffer)
    ELSE FALSE

\* uploadToCloudinary lines 803-815: what it returns when the upload is ok
uploadToCloudinary(animated) ==
    IF animated
    THEN [secure_url |-> "upload.mp4", format |-> "mp4",
          resource_type |-> "video"]
    ELSE [secure_url |-> "upload.png", format |-> "png",
          resource_type |-> "image"]

TextResponse(status, text) ==
    [status |-> status, contentType |-> "text/plain", body |-> text,
     json |-> NoJson]

\* the catch blocks: lines 875-885 and 958-968
ErrorResponse(message) ==
    [status |-> 500, contentType |-> "application/json", body |-> message,
     json |-> NoJson]

Respond(r) == response' = r /\ hPc' = "done"

Methods == {"OPTIONS", "GET", "POST", "PUT"}
Names == {"a.svg", "b.GIF", "c.png", "noext"}

StaticGif == GifHeader(1, 0, 1, 0) \o GceBlock \o ImageDescriptor \o ImageData
AnimatedGif == StaticGif \o GceBlock \o ImageDescriptor \o ImageData

Contents ==
    {StaticGif, AnimatedGif, Encode("<svg></svg>"),
     Encode("<svg><animate/></svg>"), Encode("<svg><settings/></svg>")}

Requests ==
    {[method |-> m, url |-> u, file |-> f, content |-> c] :
        m \in Methods, u \in Names \cup {""}, f \in Names \cup {""},
        c \in Contents}

\* what a fetch() of a collaborator does: an ok response, a response that is
\* not ok, or a rejection
Outcomes == {"ok", "notOk", "throws"}

\* the record of a call of a collaborator: its name, then the outcome when
\* that was not an ok response
Called(name, outcome) ==
    IF outcome = "ok" THEN <<name>> ELSE <<name, outcome>>

\* fetch lines 890-913 and 971: the dispatch on request.method
Route ==
    /\ hPc = "request"
    /\ IF request.method = "OPTIONS"
       THEN Respond([status |-> 200, contentType |-> "", body |-> "preflight",
                     json |-> NoJson])
       ELSE IF request.method = "GET"
       THEN IF request.url # ""
            THEN hPc' = "hic_fetch" /\ UNCHANGED response
            ELSE Respond(TextResponse(400, "Missing URL parameter"))
       ELSE IF request.method = "POST"
       THEN hPc' = "post_form" /\ UNCHANGED response
       ELSE Respond(TextResponse(405, "Method not allowed"))
    /\ UNCHANGED <<request, fileBuffer, format, isAnimated, uploadResult,
                   calls, gifVars, svgVars, pairVars>>

\* fetch lines 915-931: await request.formData(), then url, file or neither
PostFormData ==
    /\ hPc = "post_form"
    /\ \E parsed \in BOOLEAN :
          IF ~parsed
          THEN /\ Respond(ErrorResponse("formData failed"))
               /\ calls' = Append(calls, "throws")
               /\ UNCHANGED <<fileBuffer, format>>
          ELSE IF request.url # ""
          THEN /\ hPc' = "post_fetch"
               /\ UNCHANGED <<response, fileBuffer, format, calls>>
          ELSE IF request.file # ""
          THEN /\ fileBuffer' = request.content
               /\ format' = Extension(request.file)
               /\ calls' = Append(calls, "sourceRead")
               /\ hPc' = "post_check"
               /\ UNCHANGED response
          ELSE /\ Respond(TextResponse(400, "No file or URL provided"))
               /\ UNCHANGED <<fileBuffer, format, calls>>
    /\ UNCHANGED <<request, isAnimated, uploadResult, gifVars, svgVars, pairVars>>

\* fetch lines 920-924: fetch(url), arrayBuffer(), the extension of the url
PostFetch ==
    /\ hPc = "post_fetch"
    /\ \E outcome \in Outcomes :
          IF outcome = "ok"
          THEN /\ fileBuffer' = request.content
               /\ format' = Extension(request.url)
               /\ calls' = calls \o <<"fetchSource", "sourceRead">>
               /\ hPc' = "post_check"
               /\ UNCHANGED response
          ELSE /\ Respond(ErrorResponse("Failed to fetch image from URL"))
               /\ calls' = calls \o <<"fetchSource", outcome>>
               /\ UNCHANGED <<fileBuffer, format>>
    /\ UNCHANGED <<request, isAnimated, uploadResult, gifVars, svgVars, pairVars>>

\* fetch lines 933-935
PostCheckFormat ==
    /\ hPc = "post_check"
    /\ IF SupportedFormat(format)
       THEN /\ calls' = Append(calls, "formatCheck")
            /\ hPc' = "post_classify"
            /\ UNCHANGED response
       ELSE /\ Respond(TextResponse(400, "Unsupported file format"))
            /\ UNCHANGED calls
    /\ UNCHANGED <<request, fileBuffer, format, isAnimated, uploadResult,
                   gifVars, svgVars, pairVars>>

\* fetch lines 937-944
PostClassify ==
    /\ hPc = "post_classify"
    /\ isAnimated' = Classify(format, fileBuffer)
    /\ calls' = Append(calls, "classify")
    /\ hPc' = "post_upload"
    /\ UNCHANGED <<request, fileBuffer, format, uploadResult, response,
                   gifVars, svgVars, pairVars>>

\* fetch lines 946-957: the upload, then the JSON response
PostUpload ==
    /\ hPc = "post_upload"
    /\ \E outcome \in Outcomes :
          /\ calls' = calls \o Called("upload", outcome)
          /\ IF outcome = "ok"
             THEN /\ uploadResult' = uploadToCloudinary(isAnimated)
                  /\ Respond([status |-> 200,
                              contentType |-> "application/json",
                              body |-> uploadResult'.secure_url,
                              json |-> [format |->
                                           IF isAnimated THEN "mp4" ELSE "png",
                                        resource_type |->
                                           IF isAnimated THEN "video"
                                           ELSE "image"]])
             ELSE /\ Respond(ErrorResponse("Cloudinary upload failed"))
                  /\ UNCHANGED uploadResult
    /\ UNCHANGED <<request, fileBuffer, format, isAnimated, gifVars, svgVars, pairVars>>

\* handleImageConversion lines 842-846
HicFetch ==
    /\ hPc = "hic_fetch"
    /\ \E outcome \in Outcomes :
          IF outcome = "ok"
          THEN /\ fileBuffer' = request.content
               /\ format' = Extension(request.url)
               /\ calls' = calls \o <<"fetchSource", "sourceRead">>
               /\ hPc' = "hic_check"
               /\ UNCHANGED response
          ELSE /\ Respond(ErrorResponse("Failed to fetch image from URL"))
               /\ calls' = calls \o <<"fetchSource", outcome>>
               /\ UNCHANGED <<fileBuffer, format>>
    /\ UNCHANGED <<request, isAnimated, uploadResult, gifVars, svgVars, pairVars>>

\* handleImageConversion lines 848-850
HicCheckFormat ==
    /\ hPc = "hic_check"
    /\ IF SupportedFormat(format)
       THEN /\ calls' = Append(calls, "formatCheck")
            /\ hPc' = "hic_classify"
            /\ UNCHANGED response
       ELSE /\ Respond(TextResponse(400, "Unsupported file format"))
            /\ UNCHANGED calls
    /\ UNCHANGED <<request, fileBuffer, format, isAnimated, uploadResult,
                   gifVars, svgVars, pairVars>>

\* handleImageConversion lines 852-859
HicClassify ==
    /\ hPc = "hic_classify"
    /\ isAnimated' = Classify(format, fileBuffer)
    /\ calls' = Append(calls, "classify")
    /\ hPc' = "hic_upload"
    /\ UNCHANGED <<request, fileBuffer, format, uploadResult, response,
                   gifVars, svgVars, pairVars>>

\* handleImageConversion line 861
HicUpload ==
    /\ hPc = "hic_upload"
    /\ \E outcome \in Outcomes :
          /\ calls' = calls \o Called("upload", outcome)
          /\ IF outcome = "ok"
             THEN /\ uploadResult' = uploadToCloudinary(isAnimated)
                  /\ hPc' = "hic_converted"
                  /\ UNCHANGED response
             ELSE /\ Respond(ErrorResponse("Cloudinary upload failed"))
                  /\ UNCHANGED uploadResult
    /\ UNCHANGED <<request, fileBuffer, format, isAnimated, gifVars, svgVars, pairVars>>

\* handleImageConversion lines 863-874: the converted file is fetched (its
\* ok flag is not looked at) and returned
HicFetchConverted ==
    /\ hPc = "hic_converted"
    /\ \E outcome \in Outcomes :
          /\ calls' = calls \o Called("fetchConverted", outcome)
          /\ IF outcome = "throws"
             THEN Respond(ErrorResponse("fetch failed"))
             ELSE Respond([status |-> 200,
                           contentType |->
                              IF isAnimated THEN "video/mp4" ELSE "image/png",
                           body |-> IF outcome = "ok"
                                    THEN uploadResult.secure_url
                                    ELSE "body of the response that is not ok",
                           json |-> NoJson])
    /\ UNCHANGED <<request, fileBuffer, format, isAnimated, uploadResult,
                   gifVars, svgVars, pairVars>>

\* one request arrives
Init ==
    /\ request \in Requests
    /\ hPc = "request"
    /\ fileBuffer = <<>>
    /\ format = ""
    /\ isAnimated = FALSE
    /\ uploadResult = NoResult
    /\ response = NoResponse
    /\ calls = <<>>
    /\ pairBuf = <<>>
    /\ pairOp = "none"
    /\ jobs = [j \in Jobs |-> NoJob]
    /\ locals = [s \in Jobs |-> NoLocals]
    /\ touched = [s \in Jobs |-> {}]
    /\ gifBuf = <<>>
    /\ gifOp = "none"
    /\ gifPc = "done"
    /\ pos = 0
    /\ frames = 0
    /\ counted = {}
    /\ oobReads = {}
    /\ gifResult = NoResult
    /\ svgDoc = NoDoc
    /\ svgSource = ""
    /\ svgOp = "none"
    /\ svgPc = "done"
    /\ svgResult = NoResult

Next ==
    \/ Route
    \/ PostFormData
    \/ PostFetch
    \/ PostCheckFormat
    \/ PostClassify
    \/ PostUpload
    \/ HicFetch
    \/ HicCheckFormat
    \/ HicClassify
    \/ HicUpload
    \/ HicFetchConverted

----------------------------------------------------------------------------
(* Two concurrent requests: each invokes the same function of the core on the
   same buffer.  The functions hold their state in let variables (pos and
   frames, lines 742-743), one set per invocation; the file declares no
   variable at module level.  The iterations of the two scans interleave
   freely here, which covers every order the runtime can run them in. *)

\* the scope the let variables of invocation j live in: its own activation
ScopeShared(j) == 1

Scope(j) == j

PairOps ==
    {"isAnimatedGIF", "getGIFDimensions", "isAnimatedSVG", "getSVGDimensions"}

PairBuffers ==
    {StaticGif, AnimatedGif,
     GifHeader(10, 0, 30, 0) \o GceBlock \o ImageDescriptor \o ImageData2C
         \o GceBlock \o ImageDescriptor \o ImageData,
     GifHeader(1, 0, 1, 0) \o <<33, 249, 33, 249>>,
     <<71, 73, 88, 56, 57, 97, 1, 0, 1, 0, 0, 0, 0>> \o GceBlock \o GceBlock,
     Encode("<svg width=\"50\"><animate/></svg>"),
     Encode("<svg viewBox=\"0 0 120 80\"></svg>")}

InitPair ==
    /\ pairBuf \in PairBuffers
    /\ pairOp \in PairOps
    /\ jobs = [j \in Jobs |-> [pc |-> "start", result |-> NoResult]]
    /\ calls = <<>>
    /\ locals = [s \in Jobs |-> NoLocals]
    /\ touched = [s \in Jobs |-> {}]
    /\ gifBuf = <<>>
    /\ gifOp = "none"
    /\ gifPc = "done"
    /\ pos = 0
    /\ frames = 0
    /\ counted = {}
    /\ oobReads = {}
    /\ gifResult = NoResult
    /\ svgDoc = NoDoc
    /\ svgSource = ""
    /\ svgOp = "none"
    /\ svgPc = "done"
    /\ svgResult = NoResult
    /\ request = NoRequest
    /\ hPc = "done"
    /\ fileBuffer = <<>>
    /\ format = ""
    /\ isAnimated = FALSE
    /\ uploadResult = NoResult
    /\ response = NoResponse

Return(j, value) ==
    jobs' = [jobs EXCEPT ![j] = [pc |-> "done", result |-> value]]

Use(j) == touched' = [touched EXCEPT ![Scope(j)] = @ \cup {j}]

\* isAnimatedGIF lines 741-750 in invocation j
PairCheckHeader ==
    \E j \in Jobs :
        /\ pairOp = "isAnimatedGIF"
        /\ jobs[j].pc = "start"
        /\ Use(j)
        /\ IF BadSignature(pairBuf)
           THEN /\ Return(j, FALSE)
                /\ locals' = [locals EXCEPT ![Scope(j)] = NoLocals]
           ELSE /\ jobs' = [jobs EXCEPT ![j].pc = "scan"]
                /\ locals' = [locals EXCEPT
                                 ![Scope(j)] = [pos |-> HeaderSize,
                                                frames |-> 0]]
        /\ UNCHANGED <<pairBuf, pairOp, gifVars, svgVars, reqVars>>

\* isAnimatedGIF lines 752-762 in invocation j: one iteration
PairScanStep ==
    \E j \in Jobs :
        LET l == locals[Scope(j)]
        IN  /\ pairOp = "isAnimatedGIF"
            /\ jobs[j].pc = "scan"
            /\ l.pos < Len(pairBuf)
            /\ Use(j)
            /\ IF IsMarkerAt(pairBuf, l.pos)
               THEN IF l.frames + 1 > 1
                    THEN /\ Return(j, TRUE)
                         /\ locals' = [locals EXCEPT
                                          ![Scope(j)].frames = l.frames + 1]
                    ELSE /\ locals' = [locals EXCEPT
                                          ![Scope(j)] =
                                              [pos |-> l.pos + GceStep,
                                               frames |-> l.frames + 1]]
                         /\ UNCHANGED jobs
               ELSE IF IsImageAt(pairBuf, l.pos)
               THEN /\ locals' = [locals EXCEPT
                                     ![Scope(j)].pos = l.pos + ImageStep]
                    /\ UNCHANGED jobs
               ELSE /\ locals' = [locals EXCEPT ![Scope(j)].pos = l.pos + 1]
                    /\ UNCHANGED jobs
            /\ UNCHANGED <<pairBuf, pairOp, gifVars, svgVars, reqVars>>

\* isAnimatedGIF lines 752 and 764 in invocation j
PairScanEnd ==
    \E j \in Jobs :
        /\ pairOp = "isAnimatedGIF"
        /\ jobs[j].pc = "scan"
        /\ ~(locals[Scope(j)].pos < Len(pairBuf))
        /\ Use(j)
        /\ Return(j, FALSE)
        /\ UNCHANGED <<pairBuf, pairOp, locals, gifVars, svgVars, reqVars>>

\* the functions without a loop, in invocation j
PairCall ==
    \E j \in Jobs :
        /\ pairOp \in PairOps \ {"isAnimatedGIF"}
        /\ jobs[j].pc = "start"
        /\ Return(j, CASE pairOp = "getGIFDimensions"
                            -> getGIFDimensions(pairBuf)
                       [] pairOp = "isAnimatedSVG"
                            -> isAnimatedSVG(TextDecode(pairBuf))
                       [] pairOp = "getSVGDimensions"
                            -> getSVGDimensions(TextDecode(pairBuf)))
        /\ UNCHANGED <<pairBuf, pairOp, locals, touched, gifVars, svgVars,
                       reqVars>>

PairNext == PairCheckHeader \/ PairScanStep \/ PairScanEnd \/ PairCall

----------------------------------------------------------------------------
(* Specifications: one call of a GIF function, one call of an SVG function,
   one request to the worker, two concurrent invocations on one buffer; and
   the first and the third with weak fairness of their steps *)

SpecGIF == InitGIF /\ [][GifNext]_vars

SpecSVG == InitSVG /\ [][SvgNext]_vars

Spec == Init /\ [][Next]_vars

SpecPair == InitPair /\ [][PairNext]_vars

\* the runtime keeps running a call that has a step to take
SpecGIFFair == SpecGIF /\ WF_vars(GifNext)

SpecFair == Spec /\ WF_vars(Next)

----------------------------------------------------------------------------
(* Claims about the GIF functions, checked under SpecGIF *)

ClassifyDone == gifOp = "isAnimatedGIF" /\ gifPc = "done"
DimensionsDone == gifOp = "getGIFDimensions" /\ gifPc = "done"

\* every offset at which the two bytes 0x21 0xF9 occur in the buffer
MarkerOffsets(buffer) ==
    {i \in 0..(Len(buffer) - 2) : buffer[i + 1] = 33 /\ buffer[i + 2] = 249}

IsPrefix(p, s) == Len(p) <= Len(s) /\ Take(s, Len(p)) = p

\* the stepwise call and the function agree (consistency of the model)
StepwiseAgrees == ClassifyDone => gifResult = isAnimatedGIF(gifBuf)

\* C1: for every buffer with the GIF signature, isAnimatedGIF returns false
\* when the buffer holds fewer than two 0x21 0xF9 markers and true when it
\* holds two or more.
C1_AnimatedIffTwoMarkers ==
    (ClassifyDone /\ ~BadSignature(gifBuf))
        => (gifResult = (Cardinality(MarkerOffsets(gifBuf)) >= 2))

\* C4: for every buffer of at least 10 bytes getGIFDimensions returns
\* width = byte[6] + 256*byte[7] and height = byte[8] + 256*byte[9], both in
\* 0..65535.
C4_LittleEndianDimensions ==
    (DimensionsDone /\ Len(gifBuf) >= 10)
        => /\ gifResult.width = gifBuf[7] + 256 * gifBuf[8]
           /\ gifResult.height = gifBuf[9] + 256 * gifBuf[10]
           /\ gifResult.width \in 0..65535
           /\ gifResult.height \in 0..65535

C4_Witness ==
    /\ DimensionsDone
    /\ Len(gifBuf) > 13
    /\ gifResult = [width |-> 7690, height |-> 65535]

\* C5 as stated: on the buffer [0x47,0x49,0x46,0,0,0,0,0,0x0A,0,0x1E,0,...]
\* the dimensions are width=10, height=30.
C5_ExampleAsPrinted ==
    (DimensionsDone /\ IsPrefix(ExampleAsPrinted, gifBuf))
        => gifResult = [width |-> 10, height |-> 30]

\* C5 amended: the buffer whose bytes 6-9 are 0x0A,0x00,0x1E,0x00, that is
\* [0x47,0x49,0x46,0,0,0,0x0A,0,0x1E,0,...], yields width=10, height=30; the
\* buffer as printed (bytes 6-9 = 0,0,0x0A,0) yields width=0, height=10.
C5_ExampleAsDescribed ==
    /\ (DimensionsDone /\ IsPrefix(ExampleAsDescribed, gifBuf))
           => gifResult = [width |-> 10, height |-> 30]
    /\ (DimensionsDone /\ IsPrefix(ExampleAsPrinted, gifBuf))
           => gifResult = [width |-> 0, height |-> 10]

C5_Witness ==
    /\ DimensionsDone
    /\ IsPrefix(ExampleAsDescribed, gifBuf)
    /\ Len(gifBuf) > Len(ExampleAsDescribed)
    /\ gifResult = [width |-> 10, height |-> 30]

MalformedInput == [error |-> "MalformedInput"]

\* C6: for every buffer shorter than 10 bytes getGIFDimensions reports a
\* MalformedInput error instead of a width/height pair, and reads no index
\* past the end of the buffer.
C6_ShortBufferIsError ==
    (DimensionsDone /\ Len(gifBuf) < 10)
        => (gifResult = MalformedInput /\ oobReads = {})

\* C8: isAnimatedGIF never faults on an out-of-range read.  Every read at or
\* past the end yields undefined, which never counts as a marker byte: each
\* counted marker lies at or after offset 13 with both bytes inside the
\* buffer; the call is never stuck before it returns; and a buffer without
\* two complete markers is classified static.
C8_NoOutOfRangeFault ==
    gifOp = "isAnimatedGIF" =>
        /\ \A i \in oobReads : i >= Len(gifBuf) /\ View(gifBuf, i) = Undefined
        /\ \A p \in counted :
               p >= HeaderSize /\ p \in MarkerOffsets(gifBuf)
        /\ gifPc # "done" => ENABLED GifNext
        /\ gifPc = "done" => gifResult \in BOOLEAN
        /\ (gifPc = "done" /\ gifResult) => Cardinality(counted) = 2
        /\ (gifPc = "done"
               /\ Cardinality({i \in MarkerOffsets(gifBuf) : i >= HeaderSize}) < 2)
              => gifResult = FALSE

\* a buffer whose last byte is 0x21: view[pos + 1] is read past the end
C8_Witness ==
    /\ ClassifyDone
    /\ Len(gifBuf) > HeaderSize
    /\ gifBuf[Len(gifBuf)] = 33
    /\ Len(gifBuf) \in oobReads
    /\ Cardinality(counted) = 1
    /\ gifResult = FALSE

----------------------------------------------------------------------------
(* Claims about the SVG functions, checked under SpecSVG *)

SvgDone(op) == svgOp = op /\ svgPc = "done"

\* lit occurs in str at some position (stated without the search loop)
Occurs(str, lit) == \E i \in 1..Len(str) : StartsWithAt(str, lit, i)

\* C2: isAnimatedSVG returns true if and only if the text contains at least
\* one of the literal substrings <animate, <animateTransform, <animateMotion,
\* <set at any position, inside a comment or an attribute value included.
C2_AnimatedIffLiteralOccurs ==
    SvgDone("isAnimatedSVG") =>
        /\ svgResult =
              (\E lit \in {"<animate", "<animateTransform", "<animateMotion",
                           "<set"} : Occurs(svgSource, lit))
        /\ svgDoc.body \in {"<!--<animateMotion/>-->", "<settings/>",
                            "<a b=\"<animateTransform\"/>"} => svgResult
        /\ svgDoc.body \in {"", "<title>animate set</title>",
                            "<svg viewBox=\"0 0 9 9\"/>"} => ~svgResult

\* the only occurrence is <set, inside the name of another element
C2_Witness ==
    /\ SvgDone("isAnimatedSVG")
    /\ svgDoc.body = "<settings/>"
    /\ svgDoc.attrs # <<>>
    /\ svgResult = TRUE

\* what C7 says of a document: the root's viewBox when it has one, else the
\* root's width and height, each with its default
ClaimedDimensions(doc) ==
    IF HasAttr(doc, "viewBox")
    THEN LET tokens == Split(AttrValue(doc, "viewBox"))
         IN  [width |-> Number(tokens[3]), height |-> Number(tokens[4])]
    ELSE [width  |-> IF HasAttr(doc, "width")
                     THEN parseFloat(AttrValue(doc, "width"))
                     ELSE Num(800, 1),
          height |-> IF HasAttr(doc, "height")
                     THEN parseFloat(AttrValue(doc, "height"))
                     ELSE Num(600, 1)]

FourTokenViewBox(doc) ==
    HasAttr(doc, "viewBox") => Len(Split(AttrValue(doc, "viewBox"))) >= 4

\* C7: for every (well-formed) SVG text getSVGDimensions, in either variant,
\* uses the viewBox attribute when one is present (3rd and 4th token) and
\* otherwise reads width and height independently, each absent one taking
\* its default 800 / 600.
C7_ViewBoxThenAttributesThenDefaults ==
    (/\ SvgDone("getSVGDimensions") \/ SvgDone("getSVGDimensionsDOM")
     /\ svgDoc.body \notin IllFormedBodies
     /\ FourTokenViewBox(svgDoc))
        => svgResult = ClaimedDimensions(svgDoc)

\* the same statement of the DOM variant alone (it holds there)
C7_HoldsOfDomVariant ==
    (/\ SvgDone("getSVGDimensionsDOM")
     /\ svgDoc.body \notin IllFormedBodies
     /\ FourTokenViewBox(svgDoc))
        => svgResult = ClaimedDimensions(svgDoc)

\* a numeric literal: an optional sign, digits with at most one point, at
\* least one digit
IsNumericLiteral(str) ==
    LET signed == str # "" /\ CharAt(str, 1) \in {"+", "-"}
        rest == IF signed THEN SubSeq(str, 2, Len(str)) ELSE str
    IN  /\ \A i \in 1..Len(rest) : CharAt(rest, i) \in Digits \cup {"."}
        /\ Cardinality({i \in 1..Len(rest) : CharAt(rest, i) = "."}) <= 1
        /\ \E i \in 1..Len(rest) : CharAt(rest, i) \in Digits

\* C10: when the token getSVGDimensions uses for a dimension (the 3rd or 4th
\* viewBox token, or the width/height attribute value) is present but not
\* numeric - an empty token and a value with a unit suffix included - that
\* dimension is NaN.
C10_NonNumericTokenIsNaN ==
    SvgDone("getSVGDimensions") =>
        LET viewBox == MatchAttr(svgSource, "viewBox=\"")
            tokens == Split(viewBox.group)
            width == MatchAttr(svgSource, "width=\"")
            height == MatchAttr(svgSource, "height=\"")
        IN  IF viewBox.matched
            THEN /\ (Len(tokens) >= 3 /\ ~IsNumericLiteral(tokens[3]))
                       => svgResult.width = NaN
                 /\ (Len(tokens) >= 4 /\ ~IsNumericLiteral(tokens[4]))
                       => svgResult.height = NaN
            ELSE /\ (width.matched /\ ~IsNumericLiteral(width.group))
                       => svgResult.width = NaN
                 /\ (height.matched /\ ~IsNumericLiteral(height.group))
                       => svgResult.height = NaN

----------------------------------------------------------------------------
(* Claims about the worker, checked under Spec *)

Happened(event) == \E k \in 1..Len(calls) : calls[k] = event

\* event a was recorded, and before every record of event b
Before(a, b) ==
    \A k \in 1..Len(calls) :
        calls[k] = b => \E j \in 1..(k - 1) : calls[j] = a

\* the request names a source: GET with a url, POST with a url or a file
HasSource ==
    \/ request.method = "GET" /\ request.url # ""
    \/ request.method = "POST" /\ (request.url # "" \/ request.file # "")

\* the declared kind: the extension of the url, else of the file name
DeclaredKind ==
    IF request.url # "" THEN Extension(request.url)
    ELSE Extension(request.file)

\* the verdict of the classifier on the request's buffer
Verdict ==
    IF DeclaredKind = "svg" THEN isAnimatedSVG(TextDecode(request.content))
    ELSE isAnimatedGIF(request.content)

Converted ==
    hPc = "done" /\ response.status = 200 /\ HasSource
                 /\ DeclaredKind \in {"svg", "gif"}

\* C3: a request of a supported kind that ends in a successful conversion
\* response gets Content-Type video/mp4 if and only if the verdict on its
\* buffer is animated and image/png if and only if it is static, on the GET
\* url path, the POST url path and the file-upload path.
C3_ContainerFollowsVerdict ==
    Converted =>
        /\ (response.contentType = "video/mp4") = Verdict
        /\ (response.contentType = "image/png") = ~Verdict

\* the same statement of the GET url path alone (it holds there)
C3_HoldsOnGetPath ==
    (Converted /\ request.method = "GET") =>
        /\ (response.contentType = "video/mp4") = Verdict
        /\ (response.contentType = "image/png") = ~Verdict

Unsupported == HasSource /\ DeclaredKind \notin {"svg", "gif"}

\* neither the classifier nor the upload ran for an unsupported kind, and an
\* upload comes after the passed format check and the classification
GuardedCollaborators ==
    /\ Unsupported => ~Happened("classify") /\ ~Happened("upload")
    /\ Before("formatCheck", "classify")
    /\ Before("classify", "upload")

\* C9 as stated: every request whose declared kind is neither SVG nor GIF is
\* rejected with HTTP 400 (the form data having been read), without the
\* classifier or the upload being invoked; an upload happens only after the
\* format check has passed and classification has finished.
C9_UnsupportedKindIs400 ==
    /\ (hPc = "done" /\ Unsupported /\ response.body # "formData failed")
           => response.status = 400
    /\ GuardedCollaborators

\* C9, the part the worker keeps: the 400 is given once the source bytes have
\* been obtained (the uploaded file read, or the url fetched with an ok
\* response), and the collaborators are guarded as stated.
C9_UnsupportedKindIs400OnceRead ==
    /\ (hPc = "done" /\ Unsupported /\ Happened("sourceRead"))
           => /\ response.status = 400
              /\ response.body = "Unsupported file format"
    /\ GuardedCollaborators

C9_Witness ==
    /\ hPc = "done"
    /\ request.method = "GET"
    /\ DeclaredKind = "png"
    /\ calls = <<"fetchSource", "sourceRead">>
    /\ response.status = 400

----------------------------------------------------------------------------
(* Claims about the scale directive, checked under SpecGIF and SpecSVG *)

\* a text of decimal digits whose value is positive
IsPositiveIntegerText(str) ==
    /\ str # ""
    /\ \A i \in 1..Len(str) : CharAt(str, i) \in Digits
    /\ DigitsValue(str) > 0

\* scale=<width>:<height> with two positive integers
WellFormedDirective(vf) ==
    LET colon == IndexOfFrom(vf, ":", 1)
    IN  /\ StartsWithAt(vf, "scale=", 1)
        /\ colon # 0
        /\ IsPositiveIntegerText(SubSeq(vf, 7, colon - 1))
        /\ IsPositiveIntegerText(SubSeq(vf, colon + 1, Len(vf)))

\* C11 (GIF): the directive convertGIFtoPNG / convertGIFtoMP4 hand to the
\* encoder carries two positive integers, for every buffer.
C11_GifDirectivePositiveIntegers ==
    (gifOp = "convertGIF" /\ gifPc = "done")
        => WellFormedDirective(gifResult.vf)

\* C11 (SVG): the directive convertSVGtoPNG / convertAnimatedSVGtoMP4 hand to
\* the encoder carries two positive integers, for every SVG text.
C11_SvgDirectivePositiveIntegers ==
    (svgOp = "convertSVG" /\ svgPc = "done")
        => WellFormedDirective(svgResult.vf)

----------------------------------------------------------------------------
(* Claims about the two variants of getSVGDimensions, checked under SpecSVG *)

\* C12: for every well-formed SVG text the pattern-scanning getSVGDimensions
\* returns what the DOM-parsing variant returns for the document: only the
\* root element's own viewBox, width and height determine the result, never
\* an attribute of a nested element nor one whose name ends in width/height.
C12_PatternScanAgreesWithDom ==
    (SvgDone("getSVGDimensions") /\ svgDoc.body \notin IllFormedBodies)
        => svgResult = getSVGDimensionsDOM(svgDoc)

----------------------------------------------------------------------------
(* Claims about two concurrent invocations, checked under SpecPair *)

\* what one invocation alone returns
Sequential(op, buffer) ==
    CASE op = "isAnimatedGIF" -> isAnimatedGIF(buffer)
      [] op = "getGIFDimensions" -> getGIFDimensions(buffer)
      [] op = "isAnimatedSVG" -> isAnimatedSVG(TextDecode(buffer))
      [] op = "getSVGDimensions" -> getSVGDimensions(TextDecode(buffer))

C13_BufferNeverModified == [][pairBuf' = pairBuf]_vars

----------------------------------------------------------------------------
(* Claims about the scan of isAnimatedGIF, checked under SpecGIFFair *)

Scanning == gifOp = "isAnimatedGIF" /\ gifPc = "scan"

\* the step the claim gives for the bytes at position p
ClaimedStep(buffer, p) ==
    IF View(buffer, p) = 33 /\ View(buffer, p + 1) = 249 THEN 8
    ELSE IF View(buffer, p) = 44 THEN 11
    ELSE 1

\* the scan starts at offset 13; an iteration that does not return moves the
\* position by the claimed step, which is positive; the call returns false
\* when the position has reached the end of the buffer
ScanSteps ==
    /\ (gifOp = "isAnimatedGIF" /\ gifPc = "start" /\ gifPc' = "scan")
           => pos' = 13
    /\ (Scanning /\ gifPc' = "scan")
           => pos' = pos + ClaimedStep(gifBuf, pos) /\ pos' > pos
    /\ (Scanning /\ gifPc' = "done" /\ ~(pos < Len(gifBuf)))
           => gifResult' = FALSE /\ frames < 2

\* C14: the stricter isAnimatedGIF starts its scan at offset 13, advances by
\* exactly 8 after counting a marker, 11 on a 0x2C byte and 1 otherwise, so
\* the position strictly increases on every iteration that does not return;
\* every call terminates, and it returns static when the position reaches
\* the end of the buffer without a second marker having been counted.
C14_ScanAdvancesAndTerminates ==
    /\ [][ScanSteps]_vars
    /\ (gifOp = "isAnimatedGIF") ~> (gifPc = "done")

C14_Witness ==
    /\ ClassifyDone
    /\ gifBuf = GifHeader(1, 0, 1, 0) \o GceBlock \o ImageDescriptor
                   \o ImageData
    /\ counted = {13}
    /\ pos = Len(gifBuf)
    /\ gifResult = FALSE

----------------------------------------------------------------------------
(* Claims about the signature check, checked under SpecGIF *)

\* the first three bytes are 0x47 0x49 0x46
StartsWithGIF(buffer) ==
    Len(buffer) >= 3 /\ buffer[1] = 71 /\ buffer[2] = 73 /\ buffer[3] = 70

\* C15: for every buffer whose first three bytes are not 0x47 0x49 0x46 the
\* stricter isAnimatedGIF returns false from the header check: it reads no
\* byte at offset 13 or later and counts no marker, whatever markers the
\* rest of the buffer holds.
C15_BadSignatureReturnsStatic ==
    (gifOp = "isAnimatedGIF" /\ ~StartsWithGIF(gifBuf))
        => /\ gifPc # "scan"
           /\ pos = 0
           /\ counted = {}
           /\ gifPc = "done" => gifResult = FALSE

C15_Witness ==
    /\ ClassifyDone
    /\ IsPrefix(<<71, 73, 88>>, gifBuf)
    /\ Cardinality(MarkerOffsets(gifBuf)) >= 2
    /\ gifResult = FALSE

----------------------------------------------------------------------------
(* Claims about the two variants of isAnimatedGIF, checked under SpecGIF *)

SimpleDone == gifOp = "isAnimatedGIFSimple" /\ gifPc = "done"

\* C16: for every buffer, when the stricter isAnimatedGIF (lines 740-765)
\* returns true the simple one (lines 519-529) returns true as well, and
\* when the simple one returns false the stricter one returns false.
C16_StricterRefinesSimple ==
    /\ (ClassifyDone /\ gifResult = TRUE) => isAnimatedGIFSimple(gifBuf)
    /\ (SimpleDone /\ gifResult = FALSE) => ~isAnimatedGIF(gifBuf)

C16_Witness ==
    /\ ClassifyDone
    /\ gifResult = TRUE
    /\ Cardinality(counted) = 2
    /\ isAnimatedGIFSimple(gifBuf)

----------------------------------------------------------------------------
(* Claims about the responses of the worker, checked under Spec and SpecFair *)

\* a collaborator answered with a response that is not ok, or a call threw
CollaboratorFailed == Happened("notOk") \/ Happened("throws")

\* the responses the dispatch gives without calling a collaborator
DispatchResponses ==
    /\ request.method = "OPTIONS"
           => response.status = 200 /\ response.body = "preflight"
    /\ (request.method = "GET" /\ request.url = "") => response.status = 400
    /\ request.method \notin {"OPTIONS", "GET", "POST"}
           => response.status = 405
    /\ (request.method = "POST" /\ request.url = "" /\ request.file = ""
           /\ ~CollaboratorFailed) => response.status = 400

\* C17: a request that has ended has a response: the preflight response for
\* OPTIONS, 400 for GET without url, 405 for another method, 400 for a POST
\* with neither url nor file, and a 500 error response whenever a
\* collaborator failed (a fetch or the upload answered not ok, or a call
\* threw), never a success response.
C17_FailureIs500 ==
    hPc = "done" =>
        /\ response # NoResponse
        /\ DispatchResponses
        /\ CollaboratorFailed => response.status = 500

\* C17, the part the worker keeps: the same with the fetch of the converted
\* file set aside, whose ok flag the handler does not look at
C17_FailureIs500ButConvertedFetch ==
    hPc = "done" =>
        /\ response # NoResponse
        /\ DispatchResponses
        /\ (CollaboratorFailed
              /\ ~(Happened("fetchConverted") /\ Happened("notOk")))
               => response.status = 500

\* C17: every request ends, and its response is given once.
C17_EveryRequestEndsOnce ==
    /\ <>(hPc = "done")
    /\ [][response # NoResponse => response' = response]_vars
    /\ [](hPc # "done" => response = NoResponse)

====
